---- MODULE Spec2Model ----
(***************************************************************************)
(* The subprocess session controller of Python/cursor_run.py (and its      *)
(* twin Python/cursor_fix.py, which differs only in the prompt and in the  *)
(* two limits): main() spawns the child in a new process group, writes the *)
(* prompt to its stdin, multiplexes stdout/stderr with a 0.5 s select,     *)
(* looks for the sentinel, enforces a hard and an idle limit, and signals  *)
(* the process group in a finally block.                                   *)
(*                                                                         *)
(* Time is counted in poll intervals (one unit = the 0.5 s select          *)
(* timeout).  Bytes are 0/1 and the sizes are scaled down, keeping         *)
(* Len(SENTINEL) <= READ_SIZE <= BUF_KEEP < BUF_CAP as in the source.      *)
(*                                                                         *)
(* Spec is the session itself.  SpecBuf is the session of a child that     *)
(* floods its pipes, SpecEcho the one of a child that writes bytes outside *)
(* ASCII, SpecFine counts time in fractions of a poll interval, SpecPid    *)
(* lets the child's pid be reused once the child has been reaped.  SpecQG  *)
(* is QualityGateRunner.run_quality_checks of Python/quality_gates.py.     *)
(***************************************************************************)
EXTENDS Integers, Sequences, FiniteSets, TLC

\* ---------------------------------------------------------------- bounds
MaxLimit == 2   \* HARD_LIMIT and IDLE_LIMIT are drawn from {1, MaxLimit}
MaxBlock == 5   \* time a blocked stdin write lasts before the group reacts
MaxBytes == 2   \* bytes the process group writes to its pipes in total
MaxBufBytes == 6 \* the same, in the sessions of a child that floods its pipes
MaxEchoBytes == 3 \* the same, in the sessions of a child that writes any bytes
MaxAttempts == 4 \* max_attempts is drawn from -1..MaxAttempts
MaxErrors == 2  \* errors one run of the check suite can record
FineTicks == 2  \* time units per poll interval in the fine-grained sessions
MaxFineHard == 5 \* HARD_LIMIT of the fine-grained sessions, in their units

\* ------------------------------------------------------ program constants
POLL == 1            \* sel.select(timeout=0.5): the time unit
GRACE == 2           \* p.wait(timeout=2), scaled: longer than one poll
READ_SIZE == 2       \* read(4096), scaled
BUF_CAP == 4         \* 1_000_000, scaled
BUF_KEEP == 2        \* 500_000, scaled
TIMEOUT_CODE == 124
SIGTERM == 15
SIGKILL == 9
SENTINEL == <<1, 1>> \* b"~~CURSOR_DONE~~", scaled to two bytes

Byte == {0, 1}       \* two ASCII bytes
LEAD == 2            \* a byte that opens a two-byte UTF-8 sequence
CONT == 3            \* a UTF-8 continuation byte
REPL == 9            \* the encoding of U+FFFD (EF BF BD), as one unit
AnyByte == Byte \cup {LEAD, CONT}
Streams == {"out", "err"}
Procs == {"child", "desc"}
ChildCodes == {0, 1}
Limits == {1, MaxLimit}
None == "None"   \* no reason recorded yet
NoCode == <<>>   \* p.returncode is None; a code c is <<c>>

VARIABLES
    pc,          \* position of main(): spawn, write_stdin, register, loop,
                 \* select, read, finally, wait, done
    clock,       \* time.time()
    HARD_LIMIT, IDLE_LIMIT,
    start, last, \* start = last = time.time()
    now,         \* the sample taken at the top of the current iteration
    waited,      \* time spent so far inside select() or p.wait()
    sel,         \* sel.get_map(): the registered streams
    events,      \* the events of the current iteration not yet handled
    buf,         \* buf_out, buf_err
    exit_code,
    reason,      \* which exit of the loop was taken: SentinelFound,
                 \* HardTimeout, IdleTimeout, ProcessExited, or Exception
                 \* for an exception other than SystemExit
    raised,      \* an exception is propagating out of main()
    returncode,  \* p.returncode
    proc,        \* the process group: child (its leader: none, running,
                 \* exited) and a descendant of it (none, running)
    childCode,   \* the exit status of the child once it has exited
    writers,     \* the processes holding the write end of each output pipe
    pipe,        \* bytes written to each pipe and not yet read
    budget,      \* bytes the group may still write
    payloadBig,  \* the prompt does not fit in the free space of the stdin pipe
    termCalls,   \* number of os.killpg(p.pid, SIGTERM) calls made
    killCalls,   \* number of os.killpg(p.pid, SIGKILL) calls made
    killError,   \* history: killpg raised, no such process group being left
    lastRead,    \* history: time.time() at the latest non-empty read
    seen,        \* history: every byte read from each stream, in order
    echoed,      \* history: what was written to sys.stdout / sys.stderr
    writeError,  \* history: the stdin write raised and was swallowed
    otherGroup,  \* a process group of another, concurrent session that has
                 \* been given the id p.pid: none, alive, or signalled by
                 \* this session
    \* quality_gates.py, QualityGates.run_quality_checks:
    qpc,         \* its position: idle (not called), start, while, checks,
                 \* fix, final, returned
    appExists,   \* self.app_root.exists()
    auto_fix, max_attempts,
    attempt,
    errors,      \* len(self.errors)
    lastFix,     \* what the latest attempt_auto_fix() returned: none, ok,
                 \* failed
    result,      \* the value returned: none, True, False
    suiteRuns,   \* history: number of runs of the eight checks
    fixCalls     \* history: number of calls of attempt_auto_fix()

ctl == <<pc, start, last, now, waited, sel, events, buf, exit_code, reason,
         raised, returncode>>
cfg == <<HARD_LIMIT, IDLE_LIMIT>>
env == <<proc, childCode, writers, pipe, budget, payloadBig>>
calls == <<termCalls, killCalls, killError>>
hist == <<lastRead, seen, echoed, writeError>>
ghost == <<calls, hist, otherGroup>>
qg == <<qpc, appExists, auto_fix, max_attempts, attempt, errors, lastFix,
        result, suiteRuns, fixCalls>>
vars == <<ctl, cfg, qg, env, ghost, clock>>

\* ------------------------------------------------------------- helpers
Take(s, n) == SubSeq(s, 1, IF Len(s) < n THEN Len(s) ELSE n)
Drop(s, n) == SubSeq(s, (IF Len(s) < n THEN Len(s) ELSE n) + 1, Len(s))

\* SENTINEL in b
SentinelIn(b) ==
    \E i \in 1..(Len(b) - Len(SENTINEL) + 1) :
        SubSeq(b, i, i + Len(SENTINEL) - 1) = SENTINEL

\* if SENTINEL in buf_out / if SENTINEL in buf_err: the test made on the
\* buffer b right after chunk was appended to it and echoed.
SentinelCheck_ChunkOnly(b, chunk) == SentinelIn(chunk)

SentinelCheck(b, chunk) == SentinelIn(b)

\* emit: b.decode('utf-8', errors='replace') written to a text stream, which
\* encodes it again.  A well-formed sequence comes out as it went in; a byte
\* that is not part of one within this chunk comes out as U+FFFD.
RECURSIVE emit(_)
emit(b) ==
    IF b = <<>> THEN <<>>
    ELSE IF Head(b) \in Byte THEN <<Head(b)>> \o emit(Tail(b))
    ELSE IF Head(b) = LEAD /\ Len(b) >= 2 /\ b[2] = CONT
           THEN <<LEAD, CONT>> \o emit(Tail(Tail(b)))
    ELSE <<REPL>> \o emit(Tail(b))

\* if len(b) > 1_000_000: b = b[-500_000:]
Truncate_KeepHead(b) ==
    IF Len(b) > BUF_CAP THEN SubSeq(b, 1, BUF_KEEP) ELSE b

Truncate(b) ==
    IF Len(b) > BUF_CAP THEN SubSeq(b, Len(b) - BUF_KEEP + 1, Len(b)) ELSE b

Running == {p \in Procs : proc[p] = "running"}

\* The process group p.pid names still has a member: a running process, or
\* the leader as a zombie that has not been reaped by poll()/wait().
GroupExists ==
    Running # {} \/ (proc["child"] = "exited" /\ returncode = NoCode)

\* select() reports a registered pipe that has data or is at EOF.
Ready == {s \in sel : pipe[s] # <<>> \/ writers[s] = {}}

\* now - start > HARD_LIMIT
HardExpired_FromLast(t) == t - last > HARD_LIMIT

HardExpired_IdleLimit(t) == t - start > IDLE_LIMIT

HardExpired_Never(t) == FALSE

HardExpired(t) == t - start > HARD_LIMIT

\* now - last > IDLE_LIMIT
IdleExpired(t) == t - last > IDLE_LIMIT

\* last = now: a non-empty read renews the idle deadline with the sample
\* taken at the top of the iteration.
RenewedLast_Never == last

RenewedLast_Start == start

RenewedLast == now

\* p.poll() is not None and not sel.get_map()
ExitedAndDrained_NoEofCheck == proc["child"] = "exited"

ExitedAndDrained_OneEof == proc["child"] = "exited" /\ sel # Streams

ExitedAndDrained == proc["child"] = "exited" /\ sel = {}

\* p.returncode or 0, for a return code rc = <<c>>
ReturnCodeOr0_Always0(rc) == 0

ReturnCodeOr0(rc) == rc[1]

\* ------------------------------------------------------------- Init
\* run_quality_checks is not called in a session of cursor_run.py.
QualityGatesIdle ==
    /\ qpc = "idle"
    /\ appExists = FALSE
    /\ auto_fix = FALSE
    /\ max_attempts = 0
    /\ attempt = 0
    /\ errors = 0
    /\ lastFix = "none"
    /\ result = "none"
    /\ suiteRuns = 0
    /\ fixCalls = 0

Init ==
    /\ pc = "spawn"
    /\ clock = 0
    /\ HARD_LIMIT \in Limits
    /\ IDLE_LIMIT \in Limits
    /\ start = 0
    /\ last = 0
    /\ now = 0
    /\ waited = 0
    /\ sel = {}
    /\ events = {}
    /\ buf = [s \in Streams |-> <<>>]
    /\ exit_code = 0
    /\ reason = None
    /\ raised = FALSE
    /\ returncode = NoCode
    /\ proc = [p \in Procs |-> "none"]
    /\ childCode = NoCode
    /\ writers = [s \in Streams |-> {}]
    /\ pipe = [s \in Streams |-> <<>>]
    /\ budget = MaxBytes
    /\ payloadBig \in BOOLEAN
    /\ termCalls = 0
    /\ killCalls = 0
    /\ killError = FALSE
    /\ lastRead = 0
    /\ seen = [s \in Streams |-> <<>>]
    /\ echoed = [s \in Streams |-> <<>>]
    /\ writeError = FALSE
    /\ otherGroup = "none"
    /\ QualityGatesIdle

\* ------------------------------------------------- launch and stdin write
\* subprocess.Popen(cmd, preexec_fn=os.setsid, ...) succeeds.
Spawn ==
    /\ pc = "spawn"
    /\ pc' = "write_stdin"
    /\ proc' = [proc EXCEPT !["child"] = "running"]
    /\ writers' = [s \in Streams |-> {"child"}]
    /\ UNCHANGED <<start, last, now, waited, sel, events, buf, exit_code,
                   reason, raised, returncode, cfg, qg, childCode, pipe, budget,
                   payloadBig, ghost, clock>>

\* Popen raises (binary not found, permission denied): nothing catches it.
SpawnFails_InsideTry ==
    /\ pc = "spawn"
    /\ pc' = "finally"
    /\ raised' = TRUE
    /\ UNCHANGED <<start, last, now, waited, sel, events, buf, exit_code,
                   reason, returncode, cfg, qg, env, ghost, clock>>

SpawnFails ==
    /\ pc = "spawn"
    /\ pc' = "done"
    /\ raised' = TRUE
    /\ UNCHANGED <<start, last, now, waited, sel, events, buf, exit_code,
                   reason, returncode, cfg, qg, env, ghost, clock>>

\* p.stdin.write(prompt) returns: the prompt fits in the pipe, or the group
\* has read enough of it; then p.stdin.close().
StdinWrite ==
    /\ pc = "write_stdin"
    /\ Running # {}
    /\ ~payloadBig
    /\ pc' = "register"
    /\ UNCHANGED <<start, last, now, waited, sel, events, buf, exit_code,
                   reason, raised, returncode, cfg, qg, env, ghost, clock>>

\* The write is a blocking write(2) on a full pipe nobody reads: main() sits
\* in it, for MaxBlock time units here, until the group reads or dies.
StdinBlocked ==
    /\ pc = "write_stdin"
    /\ Running # {}
    /\ payloadBig
    /\ clock < MaxBlock
    /\ clock' = clock + MaxBlock
    /\ UNCHANGED <<ctl, cfg, qg, env, ghost>>

\* The write raises BrokenPipeError (no reader is left); except Exception
\* swallows it and main() goes on.
StdinWriteFails_Fatal ==
    /\ pc = "write_stdin"
    /\ Running = {}
    /\ pc' = "done"
    /\ raised' = TRUE
    /\ writeError' = TRUE
    /\ UNCHANGED <<start, last, now, waited, sel, events, buf, exit_code,
                   reason, returncode, cfg, qg, env, calls, lastRead, seen, echoed,
                   otherGroup, clock>>

StdinWriteFails ==
    /\ pc = "write_stdin"
    /\ Running = {}
    /\ pc' = "register"
    /\ writeError' = TRUE
    /\ UNCHANGED <<start, last, now, waited, sel, events, buf, exit_code,
                   reason, raised, returncode, cfg, qg, env, calls, lastRead,
                   seen, echoed, otherGroup, clock>>

\* Something except Exception does not catch ends the write (a
\* KeyboardInterrupt while blocked), or the handler's own print raises: the
\* exception leaves main() before the try/finally of the loop is entered.
StdinWriteAborts ==
    /\ pc = "write_stdin"
    /\ pc' = "done"
    /\ raised' = TRUE
    /\ UNCHANGED <<start, last, now, waited, sel, events, buf, exit_code,
                   reason, returncode, cfg, qg, env, ghost, clock>>

\* sel.register(p.stdout, EVENT_READ); sel.register(p.stderr, EVENT_READ)
Register ==
    /\ pc = "register"
    /\ pc' = "loop"
    /\ sel' = Streams
    /\ UNCHANGED <<start, last, now, waited, events, buf, exit_code, reason,
                   raised, returncode, cfg, qg, env, ghost, clock>>

\* sel.register raises: again before the try/finally.
RegisterRaises ==
    /\ pc = "register"
    /\ pc' = "done"
    /\ raised' = TRUE
    /\ UNCHANGED <<start, last, now, waited, sel, events, buf, exit_code,
                   reason, returncode, cfg, qg, env, ghost, clock>>

\* --------------------------------------------------------------- the loop
\* Top of `while True`: the exit check, the time sample, the hard check.
LoopTop_IdleFirst ==
    /\ pc = "loop"
    /\ returncode' = IF proc["child"] = "exited" THEN childCode ELSE returncode
    /\ IF ExitedAndDrained
         THEN /\ exit_code' = ReturnCodeOr0(childCode)
              /\ reason' = "ProcessExited"
              /\ pc' = "finally"
              /\ UNCHANGED <<now, waited>>
         ELSE /\ now' = clock
              /\ IF IdleExpired(clock) \/ HardExpired(clock)
                   THEN /\ exit_code' = TIMEOUT_CODE
                        /\ reason' = IF IdleExpired(clock) THEN "IdleTimeout"
                                                           ELSE "HardTimeout"
                        /\ pc' = "finally"
                        /\ UNCHANGED waited
                   ELSE /\ pc' = "select"
                        /\ waited' = 0
                        /\ UNCHANGED <<exit_code, reason>>
    /\ UNCHANGED <<start, last, sel, events, buf, raised, cfg, qg, env, ghost,
                   clock>>

LoopTop_HardFirst ==
    /\ pc = "loop"
    /\ returncode' = IF proc["child"] = "exited" THEN childCode ELSE returncode
    /\ IF HardExpired(clock)
         THEN /\ now' = clock
              /\ exit_code' = TIMEOUT_CODE
              /\ reason' = "HardTimeout"
              /\ pc' = "finally"
              /\ UNCHANGED waited
         ELSE IF ExitedAndDrained
                THEN /\ exit_code' = ReturnCodeOr0(childCode)
                     /\ reason' = "ProcessExited"
                     /\ pc' = "finally"
                     /\ UNCHANGED <<now, waited>>
                ELSE /\ now' = clock
                     /\ pc' = "select"
                     /\ waited' = 0
                     /\ UNCHANGED <<exit_code, reason>>
    /\ UNCHANGED <<start, last, sel, events, buf, raised, cfg, qg, env, ghost,
                   clock>>

LoopTop ==
    /\ pc = "loop"
    /\ returncode' = IF proc["child"] = "exited" THEN childCode ELSE returncode
    /\ IF ExitedAndDrained
         THEN /\ exit_code' = ReturnCodeOr0(childCode)
              /\ reason' = "ProcessExited"
              /\ pc' = "finally"
              /\ UNCHANGED <<now, waited>>
         ELSE /\ now' = clock
              /\ IF HardExpired(clock)
                   THEN /\ exit_code' = TIMEOUT_CODE
                        /\ reason' = "HardTimeout"
                        /\ pc' = "finally"
                        /\ UNCHANGED waited
                   ELSE /\ pc' = "select"
                        /\ waited' = 0
                        /\ UNCHANGED <<exit_code, reason>>
    /\ UNCHANGED <<start, last, sel, events, buf, raised, cfg, qg, env, ghost,
                   clock>>

\* Inside sel.select(timeout=0.5) with nothing ready: time passes.  poll is
\* the timeout in time units.
SelectWait(poll) ==
    /\ pc = "select"
    /\ Ready = {}
    /\ waited < poll
    /\ waited' = waited + 1
    /\ clock' = clock + 1
    /\ UNCHANGED <<pc, start, last, now, sel, events, buf, exit_code, reason,
                   raised, returncode, cfg, qg, env, ghost>>

\* select returns: with the ready streams, or empty after the timeout, in
\* which case the idle check runs on the sample taken before the wait.
SelectReturn(poll) ==
    /\ pc = "select"
    /\ Ready # {} \/ waited = poll
    /\ events' = Ready
    /\ IF Ready # {}
         THEN /\ pc' = "read"
              /\ UNCHANGED <<exit_code, reason>>
         ELSE /\ IF IdleExpired(now)
                   THEN /\ exit_code' = TIMEOUT_CODE
                        /\ reason' = "IdleTimeout"
                        /\ pc' = "finally"
                   ELSE /\ pc' = "loop"
                        /\ UNCHANGED <<exit_code, reason>>
    /\ UNCHANGED <<start, last, now, waited, sel, buf, raised, returncode,
                   cfg, qg, env, ghost, clock>>

\* One pass of `for key, _ in events` for stream s.
ReadEvent(s) ==
    /\ pc = "read"
    /\ s \in events
    /\ LET chunk == Take(pipe[s], READ_SIZE)
           grown == buf[s] \o chunk
           rest  == events \ {s}
       IN  IF chunk = <<>>
             THEN \* EOF: sel.unregister(key.fileobj); continue
                  /\ sel' = sel \ {s}
                  /\ events' = rest
                  /\ pc' = IF rest = {} THEN "loop" ELSE "read"
                  /\ UNCHANGED <<last, buf, exit_code, reason, raised, pipe,
                                 lastRead, seen, echoed>>
             ELSE /\ pipe' = [pipe EXCEPT ![s] = Drop(pipe[s], READ_SIZE)]
                  /\ last' = RenewedLast
                  /\ lastRead' = clock
                  /\ seen' = [seen EXCEPT ![s] = seen[s] \o chunk]
                  /\ \/ \* emit() raises: the exception leaves the loop
                        /\ buf' = [buf EXCEPT ![s] = grown]
                        /\ raised' = TRUE
                        /\ reason' = "Exception"
                        /\ pc' = "finally"
                        /\ UNCHANGED <<sel, events, exit_code, echoed>>
                     \/ /\ SentinelCheck(grown, chunk)
                        \* raise SystemExit(0); except SystemExit: exit_code = 0
                        /\ buf' = [buf EXCEPT ![s] = grown]
                        /\ echoed' = [echoed EXCEPT ![s] = echoed[s] \o emit(chunk)]
                        /\ exit_code' = 0
                        /\ reason' = "SentinelFound"
                        /\ pc' = "finally"
                        /\ UNCHANGED <<sel, events, raised>>
                     \/ /\ ~SentinelCheck(grown, chunk)
                        /\ buf' = [buf EXCEPT ![s] = Truncate(grown)]
                        /\ echoed' = [echoed EXCEPT ![s] = echoed[s] \o emit(chunk)]
                        /\ events' = rest
                        /\ pc' = IF rest = {} THEN "loop" ELSE "read"
                        /\ UNCHANGED <<sel, exit_code, reason, raised>>
    /\ UNCHANGED <<start, now, waited, returncode, cfg, qg, proc, childCode,
                   writers, budget, payloadBig, calls, writeError, otherGroup,
                   clock>>

\* The read itself raises (OSError): the exception leaves the loop.
ReadRaises_NoFinally ==
    /\ pc = "read"
    /\ events # {}
    /\ raised' = TRUE
    /\ reason' = "Exception"
    /\ pc' = "done"
    /\ UNCHANGED <<start, last, now, waited, sel, events, buf, exit_code,
                   returncode, cfg, qg, env, ghost, clock>>

ReadRaises ==
    /\ pc = "read"
    /\ events # {}
    /\ raised' = TRUE
    /\ reason' = "Exception"
    /\ pc' = "finally"
    /\ UNCHANGED <<start, last, now, waited, sel, events, buf, exit_code,
                   returncode, cfg, qg, env, ghost, clock>>

\* -------------------------------------------------------------- finally
\* os.killpg(p.pid, signal.SIGTERM): every running member of the group gets
\* the signal; each exits on it, at a time of its own (ProcExits), or handles
\* or ignores it.  With no member left the call raises ProcessLookupError,
\* which except Exception swallows.  main() never reads the pipes again: the
\* model stops tracking what they hold.
KillTerm_ErrorPropagates ==
    /\ pc = "finally"
    /\ termCalls' = termCalls + 1
    /\ killError' = (~GroupExists /\ otherGroup # "alive")
    /\ otherGroup' = IF ~GroupExists /\ otherGroup = "alive"
                       THEN "signalled" ELSE otherGroup
    /\ IF GroupExists
         THEN /\ pc' = "wait"
              /\ waited' = 0
         ELSE /\ pc' = "done"
              /\ UNCHANGED waited
    /\ pipe' = [s \in Streams |-> <<>>]
    /\ budget' = 0
    /\ raised' = (raised \/ (~GroupExists /\ otherGroup # "alive"))
    /\ UNCHANGED <<start, last, now, sel, events, buf, exit_code, reason,
                   returncode, cfg, qg, proc, childCode, writers,
                   payloadBig, killCalls, hist, clock>>

KillTerm ==
    /\ pc = "finally"
    /\ termCalls' = termCalls + 1
    /\ killError' = (~GroupExists /\ otherGroup # "alive")
    /\ otherGroup' = IF ~GroupExists /\ otherGroup = "alive"
                       THEN "signalled" ELSE otherGroup
    /\ IF GroupExists
         THEN /\ pc' = "wait"
              /\ waited' = 0
         ELSE /\ pc' = "done"
              /\ UNCHANGED waited
    /\ pipe' = [s \in Streams |-> <<>>]
    /\ budget' = 0
    /\ UNCHANGED <<start, last, now, sel, events, buf, exit_code, reason,
                   raised, returncode, cfg, qg, proc, childCode, writers,
                   payloadBig, killCalls, hist, clock>>

\* Inside p.wait(timeout=2) while the child has not exited.
WaitTick ==
    /\ pc = "wait"
    /\ proc["child"] = "running"
    /\ waited < GRACE
    /\ waited' = waited + 1
    /\ clock' = clock + 1
    /\ UNCHANGED <<pc, start, last, now, sel, events, buf, exit_code, reason,
                   raised, returncode, cfg, qg, env, ghost>>

\* p.wait returns because the child (the leader, not the group) has exited.
WaitReturns ==
    /\ pc = "wait"
    /\ proc["child"] = "exited"
    /\ returncode' = childCode
    /\ pc' = "done"
    /\ UNCHANGED <<start, last, now, waited, sel, events, buf, exit_code,
                   reason, raised, cfg, qg, env, ghost, clock>>

\* subprocess.TimeoutExpired: os.killpg(p.pid, signal.SIGKILL).
WaitTimeout ==
    /\ pc = "wait"
    /\ proc["child"] = "running"
    /\ waited = GRACE
    /\ killCalls' = killCalls + 1
    /\ proc' = [proc EXCEPT !["child"] = "exited", !["desc"] = "none"]
    /\ writers' = [s \in Streams |-> {}]
    /\ childCode' = <<-SIGKILL>>
    /\ pc' = "done"
    /\ UNCHANGED <<start, last, now, waited, sel, events, buf, exit_code,
                   reason, raised, returncode, cfg, qg, pipe, budget, payloadBig,
                   termCalls, killError, hist, otherGroup, clock>>

\* ------------------------------------------------- the process group
\* The group's steps are interleaved with main() where main() is inside a
\* blocking call: the stdin write, select(), p.wait().  The steps of main()
\* between two such calls take no time, so a step of the group that falls
\* between them is a step taken during the call before or after.
Blocked == pc \in {"write_stdin", "select", "wait"}

\* main() still reads the pipes: what the group does to them once the loop
\* has ended is not observed by main().
Observed == pc \in {"write_stdin", "select"}

\* A member of the group writes one byte to an output pipe it holds.
GroupWrites(s, b) ==
    /\ Observed
    /\ budget > 0
    /\ writers[s] \cap Running # {}
    /\ pipe' = [pipe EXCEPT ![s] = Append(pipe[s], b)]
    /\ budget' = budget - 1
    /\ UNCHANGED <<ctl, cfg, qg, proc, childCode, writers, payloadBig, ghost, clock>>

\* The child closes its copy of an output pipe.
ChildCloses(s) ==
    /\ Observed
    /\ proc["child"] = "running"
    /\ "child" \in writers[s]
    /\ writers' = [writers EXCEPT ![s] = writers[s] \ {"child"}]
    /\ UNCHANGED <<ctl, cfg, qg, proc, childCode, pipe, budget, payloadBig, ghost,
                   clock>>

\* The exit statuses a member can end with: a code of its own, or the
\* signal's once SIGTERM has been sent (nothing reads the status after that).
ExitCodes == IF pc = "wait" THEN {-SIGTERM} ELSE ChildCodes

\* A member exits; its descriptors close.
ProcExits(p, code) ==
    /\ Blocked
    /\ proc[p] = "running"
    /\ proc' = [proc EXCEPT ![p] = IF p = "child" THEN "exited" ELSE "none"]
    /\ writers' = [s \in Streams |-> writers[s] \ {p}]
    /\ childCode' = IF p = "child" THEN <<code>> ELSE childCode
    /\ UNCHANGED <<ctl, cfg, qg, pipe, budget, payloadBig, ghost, clock>>

\* The child forks a descendant, which stays in the group; it keeps the
\* child's output descriptors (inherits) or closes them at once (a daemon).
ChildForks(inherits) ==
    /\ Observed
    /\ proc["child"] = "running"
    /\ proc["desc"] = "none"
    /\ proc' = [proc EXCEPT !["desc"] = "running"]
    /\ writers' = [s \in Streams |->
                     IF inherits /\ "child" \in writers[s]
                       THEN writers[s] \cup {"desc"}
                       ELSE writers[s]]
    /\ UNCHANGED <<ctl, cfg, qg, childCode, pipe, budget, payloadBig, ghost, clock>>

\* Another session, running concurrently, spawns its child with
\* preexec_fn=os.setsid and the system gives it the process id p.pid, which
\* is free once the child has been reaped and no member of its group is
\* left: the id p.pid now names the other session's process group.
PidReused ==
    /\ pc = "select"
    /\ proc["child"] = "exited"
    /\ returncode # NoCode
    /\ Running = {}
    /\ otherGroup = "none"
    /\ otherGroup' = "alive"
    /\ UNCHANGED <<ctl, cfg, qg, env, calls, hist, clock>>

\* The group reads its stdin, making room for the rest of the prompt.
GroupReadsStdin ==
    /\ pc = "write_stdin"
    /\ Running # {}
    /\ payloadBig
    /\ payloadBig' = FALSE
    /\ UNCHANGED <<ctl, cfg, qg, proc, childCode, writers, pipe, budget, ghost,
                   clock>>

\* ------------------------------------------------------------- Next
Controller ==
    \/ Spawn \/ SpawnFails
    \/ StdinWrite \/ StdinBlocked \/ StdinWriteFails \/ StdinWriteAborts
    \/ Register \/ RegisterRaises
    \/ LoopTop \/ SelectWait(POLL) \/ SelectReturn(POLL)
    \/ (\E s \in Streams : ReadEvent(s)) \/ ReadRaises
    \/ KillTerm \/ WaitTick \/ WaitReturns \/ WaitTimeout

Group ==
    \/ \E s \in Streams, b \in Byte : GroupWrites(s, b)
    \/ \E s \in Streams : ChildCloses(s)
    \/ \E p \in Procs, code \in ExitCodes : ProcExits(p, code)
    \/ \E inherits \in BOOLEAN : ChildForks(inherits)
    \/ GroupReadsStdin

Next == Controller \/ Group

Spec == Init /\ [][Next]_vars

\* ------------------------------------------------- concurrent sessions
\* main() in a system where other sessions of the same script spawn their
\* own children while this one runs.
NextPid == Next \/ PidReused

SpecPid == Init /\ [][NextPid]_vars

\* ------------------------------------------- sessions of a flooding child
\* The same main(), run against a child that takes the prompt and then only
\* writes, more than the buffers may hold (MaxBufBytes > BUF_CAP), while
\* the loop reads as fast as select() reports the data: no timeout ever
\* elapses and the loop ends, if it does, on the sentinel or on an exception.
InitBuf ==
    /\ pc = "spawn"
    /\ clock = 0
    /\ HARD_LIMIT = MaxLimit
    /\ IDLE_LIMIT = MaxLimit
    /\ start = 0
    /\ last = 0
    /\ now = 0
    /\ waited = 0
    /\ sel = {}
    /\ events = {}
    /\ buf = [s \in Streams |-> <<>>]
    /\ exit_code = 0
    /\ reason = None
    /\ raised = FALSE
    /\ returncode = NoCode
    /\ proc = [p \in Procs |-> "none"]
    /\ childCode = NoCode
    /\ writers = [s \in Streams |-> {}]
    /\ pipe = [s \in Streams |-> <<>>]
    /\ budget = MaxBufBytes
    /\ payloadBig = FALSE
    /\ termCalls = 0
    /\ killCalls = 0
    /\ killError = FALSE
    /\ lastRead = 0
    /\ seen = [s \in Streams |-> <<>>]
    /\ echoed = [s \in Streams |-> <<>>]
    /\ writeError = FALSE
    /\ otherGroup = "none"
    /\ QualityGatesIdle

NextBuf ==
    \/ Spawn
    \/ StdinWrite
    \/ Register
    \/ LoopTop
    \/ SelectReturn(POLL)
    \/ \E s \in Streams : ReadEvent(s)
    \/ \E s \in Streams, b \in Byte : GroupWrites(s, b)

SpecBuf == InitBuf /\ [][NextBuf]_vars

\* ------------------------------------- sessions of a child writing any bytes
\* The same main() against a child whose output is not confined to ASCII.
InitEcho ==
    /\ pc = "spawn"
    /\ clock = 0
    /\ HARD_LIMIT = MaxLimit
    /\ IDLE_LIMIT = MaxLimit
    /\ start = 0
    /\ last = 0
    /\ now = 0
    /\ waited = 0
    /\ sel = {}
    /\ events = {}
    /\ buf = [s \in Streams |-> <<>>]
    /\ exit_code = 0
    /\ reason = None
    /\ raised = FALSE
    /\ returncode = NoCode
    /\ proc = [p \in Procs |-> "none"]
    /\ childCode = NoCode
    /\ writers = [s \in Streams |-> {}]
    /\ pipe = [s \in Streams |-> <<>>]
    /\ budget = MaxEchoBytes
    /\ payloadBig = FALSE
    /\ termCalls = 0
    /\ killCalls = 0
    /\ killError = FALSE
    /\ lastRead = 0
    /\ seen = [s \in Streams |-> <<>>]
    /\ echoed = [s \in Streams |-> <<>>]
    /\ writeError = FALSE
    /\ otherGroup = "none"
    /\ QualityGatesIdle

NextEcho ==
    \/ Spawn
    \/ StdinWrite
    \/ Register
    \/ LoopTop
    \/ SelectReturn(POLL)
    \/ \E s \in Streams : ReadEvent(s)
    \/ \E s \in Streams, b \in AnyByte : GroupWrites(s, b)

SpecEcho == InitEcho /\ [][NextEcho]_vars

\* --------------------------------------------- fine-grained sessions
\* The same main() with time counted in 1/FineTicks of a poll interval, so
\* that a limit may be shorter than one select timeout and a byte may arrive
\* part of the way through a wait.  The child takes the prompt and writes
\* when it pleases.
InitFine ==
    /\ pc = "spawn"
    /\ clock = 0
    /\ HARD_LIMIT = MaxFineHard
    /\ IDLE_LIMIT \in 1..(FineTicks + 1)
    /\ start = 0
    /\ last = 0
    /\ now = 0
    /\ waited = 0
    /\ sel = {}
    /\ events = {}
    /\ buf = [s \in Streams |-> <<>>]
    /\ exit_code = 0
    /\ reason = None
    /\ raised = FALSE
    /\ returncode = NoCode
    /\ proc = [p \in Procs |-> "none"]
    /\ childCode = NoCode
    /\ writers = [s \in Streams |-> {}]
    /\ pipe = [s \in Streams |-> <<>>]
    /\ budget = MaxBytes
    /\ payloadBig = FALSE
    /\ termCalls = 0
    /\ killCalls = 0
    /\ killError = FALSE
    /\ lastRead = 0
    /\ seen = [s \in Streams |-> <<>>]
    /\ echoed = [s \in Streams |-> <<>>]
    /\ writeError = FALSE
    /\ otherGroup = "none"
    /\ QualityGatesIdle

NextFine ==
    \/ Spawn
    \/ StdinWrite
    \/ Register
    \/ LoopTop
    \/ SelectWait(FineTicks)
    \/ SelectReturn(FineTicks)
    \/ \E s \in Streams : ReadEvent(s)
    \/ \E s \in Streams, b \in Byte : GroupWrites(s, b)

SpecFine == InitFine /\ [][NextFine]_vars

\* ------------------------------------ quality_gates.run_quality_checks
\* main() of cursor_run.py is not running.
MainIdle ==
    /\ pc = "idle"
    /\ clock = 0
    /\ HARD_LIMIT = MaxLimit
    /\ IDLE_LIMIT = MaxLimit
    /\ start = 0
    /\ last = 0
    /\ now = 0
    /\ waited = 0
    /\ sel = {}
    /\ events = {}
    /\ buf = [s \in Streams |-> <<>>]
    /\ exit_code = 0
    /\ reason = None
    /\ raised = FALSE
    /\ returncode = NoCode
    /\ proc = [p \in Procs |-> "none"]
    /\ childCode = NoCode
    /\ writers = [s \in Streams |-> {}]
    /\ pipe = [s \in Streams |-> <<>>]
    /\ budget = 0
    /\ payloadBig = FALSE
    /\ termCalls = 0
    /\ killCalls = 0
    /\ killError = FALSE
    /\ lastRead = 0
    /\ seen = [s \in Streams |-> <<>>]
    /\ echoed = [s \in Streams |-> <<>>]
    /\ writeError = FALSE
    /\ otherGroup = "none"

\* QualityGates(app_root).run_quality_checks(auto_fix, max_attempts) is
\* called on a fresh object: __init__ has set self.errors = [].
InitQG ==
    /\ MainIdle
    /\ qpc = "start"
    /\ appExists \in BOOLEAN
    /\ auto_fix \in BOOLEAN
    /\ max_attempts \in -1..MaxAttempts
    /\ attempt = 0
    /\ errors = 0
    /\ lastFix = "none"
    /\ result = "none"
    /\ suiteRuns = 0
    /\ fixCalls = 0

\* if not self.app_root.exists(): return False; os.chdir; attempt = 1
QG_Enter ==
    /\ qpc = "start"
    /\ IF appExists
         THEN /\ attempt' = 1
              /\ qpc' = "while"
              /\ UNCHANGED result
         ELSE /\ result' = "False"
              /\ qpc' = "returned"
              /\ UNCHANGED attempt
    /\ UNCHANGED <<appExists, auto_fix, max_attempts, errors, lastFix,
                   suiteRuns, fixCalls, ctl, cfg, env, ghost, clock>>

\* while attempt <= max_attempts: self.checks = []; self.errors = []; ...
QG_While ==
    /\ qpc = "while"
    /\ IF attempt <= max_attempts
         THEN /\ errors' = 0
              /\ qpc' = "checks"
         ELSE /\ qpc' = "final"
              /\ UNCHANGED errors
    /\ UNCHANGED <<appExists, auto_fix, max_attempts, attempt, lastFix,
                   result, suiteRuns, fixCalls, ctl, cfg, env, ghost, clock>>

\* The eight checks run and record n errors between them; then the tests
\* that follow them: all passed, or auto-fix, or break.
QG_RunChecks(n) ==
    /\ qpc = "checks"
    /\ errors' = n
    /\ suiteRuns' = suiteRuns + 1
    /\ IF n = 0
         THEN /\ result' = "True"
              /\ qpc' = "returned"
         ELSE /\ qpc' = IF auto_fix /\ attempt < max_attempts
                          THEN "fix" ELSE "final"
              /\ UNCHANGED result
    /\ UNCHANGED <<appExists, auto_fix, max_attempts, attempt, lastFix,
                   fixCalls, ctl, cfg, env, ghost, clock>>

\* if self.attempt_auto_fix(): attempt += 1; continue / else: break
QG_AutoFix_IgnoresFailure(ok) ==
    /\ qpc = "fix"
    /\ fixCalls' = fixCalls + 1
    /\ lastFix' = IF ok THEN "ok" ELSE "failed"
    /\ attempt' = attempt + 1
    /\ qpc' = "while"
    /\ UNCHANGED <<appExists, auto_fix, max_attempts, errors, result,
                   suiteRuns, ctl, cfg, env, ghost, clock>>

QG_AutoFix(ok) ==
    /\ qpc = "fix"
    /\ fixCalls' = fixCalls + 1
    /\ lastFix' = IF ok THEN "ok" ELSE "failed"
    /\ IF ok
         THEN /\ attempt' = attempt + 1
              /\ qpc' = "while"
         ELSE /\ qpc' = "final"
              /\ UNCHANGED attempt
    /\ UNCHANGED <<appExists, auto_fix, max_attempts, errors, result,
                   suiteRuns, ctl, cfg, env, ghost, clock>>

\* self.print_quality_report(); return len(self.errors) == 0
QG_Final ==
    /\ qpc = "final"
    /\ result' = IF errors = 0 THEN "True" ELSE "False"
    /\ qpc' = "returned"
    /\ UNCHANGED <<appExists, auto_fix, max_attempts, attempt, errors,
                   lastFix, suiteRuns, fixCalls, ctl, cfg, env, ghost, clock>>

NextQG ==
    \/ QG_Enter
    \/ QG_While
    \/ \E n \in 0..MaxErrors : QG_RunChecks(n)
    \/ \E ok \in BOOLEAN : QG_AutoFix(ok)
    \/ QG_Final

\* Every step of run_quality_checks ends: the commands the checks and the
\* auto-fix run are bounded by run_command's timeout=300.
SpecQG == InitQG /\ [][NextQG]_vars /\ WF_vars(NextQG)

\* ===================================================================
\* The properties checked of the controller.
\* ===================================================================
LoopPcs == {"loop", "select", "read"}
PastHard(t) == t - start > HARD_LIMIT
PastIdle(t) == t - last > IDLE_LIMIT
NothingRead == \A s \in Streams : buf[s] = <<>>

\* C1: once main() has left the loop for one of its four reasons and has
\* returned, no process of the group it spawned is still running.
C1_NoGroupMemberAfterReturn ==
    (pc = "done" /\ reason \in {"SentinelFound", "HardTimeout", "IdleTimeout",
                                "ProcessExited"})
        => Running = {}

\* C2: as soon as an appended chunk makes buf_out or buf_err contain the
\* sentinel the loop is over: main() is at no point of the loop any more, so
\* it reads nothing further and waits neither for the child nor for an EOF,
\* and unless the echo of that very chunk raised, the exit taken is the
\* sentinel's, with exit code 0.
C2_SentinelEndsLoopAtOnce ==
    \A s \in Streams :
        SentinelIn(buf[s]) =>
            /\ pc \notin LoopPcs
            /\ ~raised => (reason = "SentinelFound" /\ exit_code = 0)

\* The sentinel is found while the child runs and neither stream is at EOF.
C2_Witness ==
    /\ pc = "finally"
    /\ reason = "SentinelFound"
    /\ proc["child"] = "running"
    /\ sel = Streams

\* C3: os.killpg(p.pid, SIGTERM) is called exactly once per session whose
\* loop has ended, whichever way it ended (exception included), and not
\* before the loop has ended.
C3_TerminationExactlyOnce ==
    /\ termCalls <= 1
    /\ pc \in LoopPcs \cup {"finally"} => termCalls = 0
    /\ (pc \in {"wait", "done"} /\ reason # None) => termCalls = 1

\* The loop was left by an exception and the group was signalled once.
C3_Witness ==
    /\ pc = "done"
    /\ reason = "Exception"
    /\ termCalls = 1

\* C4: every way main() ends after a successful spawn has signalled the
\* process group.
C4_CleanupCoversAllOfMain ==
    (pc = "done" /\ proc["child"] # "none") => termCalls = 1

\* C5: main() has returned by the time the hard limit, one poll interval
\* and the grace period have passed since the session started.
C5_ReturnsWithinBudget ==
    clock - start > HARD_LIMIT + POLL + GRACE => pc = "done"

\* C6: SIGKILL is never sent before SIGTERM, and SIGKILL is sent exactly
\* when the group outlives the grace period: when main() returns after
\* SIGTERM without having sent SIGKILL, the group has exited.
C6_KillIffGroupOutlivesGrace ==
    /\ killCalls >= 1 => termCalls >= 1
    /\ (pc = "done" /\ termCalls = 1 /\ killCalls = 0 /\ ~raised)
           => Running = {}

\* C7: whenever the sample taken at the top of an iteration is past the hard
\* deadline (start + HARD_LIMIT), the loop has ended there with HardTimeout
\* and code 124, however recently a byte renewed the idle deadline.
C7_HardDeadlineNotPostponed ==
    PastHard(now) =>
        /\ pc \notin LoopPcs
        /\ reason = "HardTimeout"
        /\ exit_code = TIMEOUT_CODE

\* HardTimeout although bytes kept the idle deadline in the future.
C7_Witness ==
    /\ reason = "HardTimeout"
    /\ last > start
    /\ ~PastIdle(now)

\* C8: the loop never goes round again after an iteration whose sample was
\* past the idle deadline and not past the hard deadline and in which no byte
\* was read: such an iteration ends with IdleTimeout, EOF event or not.
C8_IdleFiresDespiteEof ==
    pc = "loop" => ~(PastIdle(now) /\ ~PastHard(now))

\* C9: with HARD_LIMIT < IDLE_LIMIT and no byte ever read, the loop never
\* ends with IdleTimeout, and it never enters a readiness wait on a sample
\* past the hard deadline: it does not wait for the idle limit.
C9_SilentChildHardBeforeIdle ==
    (HARD_LIMIT < IDLE_LIMIT /\ NothingRead) =>
        /\ reason # "IdleTimeout"
        /\ pc = "select" => now - start <= HARD_LIMIT

\* A silent, running child is stopped by the hard limit.
C9_Witness ==
    /\ HARD_LIMIT < IDLE_LIMIT
    /\ NothingRead
    /\ reason = "HardTimeout"
    /\ proc["child"] = "running"
    /\ pc = "finally"

\* C10: IdleTimeout is never the outcome of an iteration whose sample is past
\* the hard deadline, and when both deadlines have passed at the same sample
\* the outcome is HardTimeout.
C10_HardWinsTie ==
    /\ reason = "IdleTimeout" => ~PastHard(now)
    /\ (PastHard(now) /\ PastIdle(now)) => reason = "HardTimeout"

\* Both deadlines had passed at the sample that ended the loop.
C10_Witness ==
    /\ reason = "HardTimeout"
    /\ PastHard(now)
    /\ PastIdle(now)

Outcomes == {"SentinelFound", "HardTimeout", "IdleTimeout", "ProcessExited"}

\* C11: IdleTimeout is reported only after more than IDLE_LIMIT of silence:
\* the latest non-empty read, on either stream, lies more than IDLE_LIMIT
\* before the present time; and every non-empty read renews the idle
\* deadline, `last` being the sample of the iteration that made the read, at
\* most one poll interval older than the read itself.
C11_IdleOnlyAfterSilence ==
    /\ reason = "IdleTimeout" => clock - lastRead > IDLE_LIMIT
    /\ last <= lastRead
    /\ lastRead <= last + POLL

\* Bytes were read, then the group fell silent and the idle limit fired.
C11_Witness ==
    /\ reason = "IdleTimeout"
    /\ lastRead > start
    /\ ~NothingRead

\* C12: the loop is never found waiting or reading more than one poll
\* interval after the hard deadline (start + HARD_LIMIT), and IdleTimeout is
\* reported no later than one poll interval after the idle deadline (the
\* time of the latest non-empty read, or the start, + IDLE_LIMIT).
C12_DetectionWithinOnePoll ==
    /\ pc \in {"select", "read"} => clock - (start + HARD_LIMIT) <= POLL
    /\ (pc = "finally" /\ reason = "IdleTimeout")
           => clock - (lastRead + IDLE_LIMIT) <= POLL

\* C13: every iteration that goes round again, with or without a readiness
\* event, has evaluated the hard and then the idle deadline on its sample:
\* the step that completes an iteration leaves neither deadline behind the
\* iteration's sample.
C13_EveryIterationChecksBoth ==
    [][(pc \in {"select", "read"} /\ pc' = "loop")
          => (~PastHard(now) /\ ~PastIdle(now))']_vars

IsSuffix(a, b) ==
    /\ Len(a) <= Len(b)
    /\ SubSeq(b, Len(b) - Len(a) + 1, Len(b)) = a

\* C14: in every state the loop can be in or end in without an exception,
\* the state of the SentinelFound exit included, neither buffer holds more
\* than BUF_CAP bytes.
C14_BufferWithinCap ==
    ~raised => \A s \in Streams : Len(buf[s]) <= BUF_CAP

\* C15: each buffer is a suffix of everything read from its stream, and as
\* soon as the bytes read from a stream contain the sentinel the loop is
\* over, with SentinelFound unless the echo of the completing chunk raised:
\* no truncation hides a sentinel.
C15_TruncationKeepsSentinel ==
    \A s \in Streams :
        /\ IsSuffix(buf[s], seen[s])
        /\ SentinelIn(seen[s]) =>
               /\ pc \notin LoopPcs
               /\ ~raised => reason = "SentinelFound"

\* The buffer was truncated, and the next chunk, a single byte, completed a
\* sentinel that began in the retained bytes.
C15_Witness ==
    \E s \in Streams :
        /\ reason = "SentinelFound"
        /\ Len(seen[s]) > BUF_CAP
        /\ Len(buf[s]) = BUF_KEEP + 1
        /\ SentinelIn(buf[s])

\* C16: the loop ends with ProcessExited only when the child has exited and
\* both streams have been unregistered at EOF, and then exit_code is the
\* child's own exit code; and the loop never goes past the top of an
\* iteration at which the child was found exited with both streams at EOF.
C16_ProcessExitedExactlyWhenDrained ==
    /\ reason = "ProcessExited" =>
           /\ proc["child"] = "exited"
           /\ sel = {}
           /\ returncode = childCode
           /\ exit_code = childCode[1]
    /\ (pc \in {"select", "read"} /\ sel = {}) => returncode = NoCode

\* A child that wrote nothing and exited with code 1.
C16_Witness ==
    /\ reason = "ProcessExited"
    /\ NothingRead
    /\ childCode = <<1>>
    /\ exit_code = 1

\* C17: a session that ends without an exception ends for exactly one of
\* the four reasons, and its exit code is 0 for SentinelFound, whatever the
\* child did, 124 for either timeout, and the child's own code (0 included)
\* for ProcessExited.
C17_ExitCodeByOutcome ==
    (pc = "done" /\ ~raised) =>
        /\ reason \in Outcomes
        /\ reason = "SentinelFound" => exit_code = 0
        /\ reason \in {"HardTimeout", "IdleTimeout"} => exit_code = 124
        /\ reason = "ProcessExited" => exit_code = childCode[1]

\* main() returns the code 1 of a child that exited after writing output.
C17_Witness ==
    /\ pc = "done"
    /\ ~raised
    /\ reason = "ProcessExited"
    /\ exit_code = 1
    /\ ~NothingRead

\* C18: when Popen fails main() ends at once with the launch error: no time
\* has passed, no stream was registered, no iteration of the loop was made,
\* no reason of the loop was recorded and no signal was sent.
C18_LaunchFailureEndsAtOnce ==
    proc["child"] = "none" =>
        /\ pc \in {"spawn", "done"}
        /\ pc = "done" => raised
        /\ reason = None
        /\ sel = {}
        /\ clock = start
        /\ termCalls = 0
        /\ killCalls = 0

\* Popen has failed.
C18_Witness ==
    /\ pc = "done"
    /\ proc["child"] = "none"
    /\ raised

\* C19: the step in which the stdin write fails only moves main() on to the
\* registration of the pipes, with no exception, reason or exit code set;
\* and a session whose write failed and that ends without an exception ends
\* for one of the four reasons of the loop.
C19_WriteFailureNotFatal ==
    /\ [][(~writeError /\ writeError')
              => /\ pc' = "register"
                 /\ ~raised'
                 /\ UNCHANGED <<reason, exit_code, sel, buf>>]_vars
    /\ []((writeError /\ pc = "done" /\ ~raised) => reason \in Outcomes)

\* The child wrote the sentinel and died before the prompt was written: the
\* write failed, and the loop still drained the pipe and found the sentinel.
C19_Witness ==
    /\ writeError
    /\ pc = "done"
    /\ reason = "SentinelFound"

\* C20: a session whose loop was entered and left never ends with an
\* exception propagating out of main(): it ends for one of the four reasons.
C20_NoErrorEscapesAfterLaunch ==
    (pc = "done" /\ termCalls = 1) => (~raised /\ reason \in Outcomes)

\* C21: when os.killpg finds no process group left, the error is swallowed:
\* that step ends main()'s cleanup and leaves the exit code, the reason and
\* the absence of an exception as the loop had set them; a session that left
\* the loop for one of its four reasons has no exception propagating.
C21_KillErrorSwallowed ==
    /\ [][(~killError /\ killError')
              => /\ pc' = "done"
                 /\ UNCHANGED <<exit_code, reason, raised>>]_vars
    /\ []((killError /\ reason \in Outcomes) => ~raised)

\* The child exited by itself with code 1 and was reaped by poll(): killpg
\* raised, and main() returns 1.
C21_Witness ==
    /\ killError
    /\ pc = "done"
    /\ reason = "ProcessExited"
    /\ exit_code = 1
    /\ ~raised

C23_EchoByteForByte ==
    ~raised => \A s \in Streams : echoed[s] = seen[s]

\* C24: no signal of this session is ever delivered to a process group of
\* another session.
C24_SignalsOnlyOwnGroup ==
    otherGroup # "signalled"

\* sys.exit(exit_code): all that main() hands to its caller.
SysExit == [exitCode |-> exit_code]

\* C25: whatever the reason the loop ended for, what main() hands to its
\* caller carries the retained stdout and stderr buffers.
C25_OutputReturnedWithOutcome ==
    (pc = "done" /\ reason \in Outcomes) =>
        /\ {"stdout", "stderr"} \subseteq DOMAIN SysExit
        /\ SysExit["stdout"] = buf["out"]
        /\ SysExit["stderr"] = buf["err"]

AtMost(n, limit) == n = 0 \/ n <= limit

\* C26: run_quality_checks returns; the check suite runs at most
\* max_attempts times and attempt_auto_fix at most max_attempts times
\* (never, when max_attempts is not positive); attempt_auto_fix is called
\* only with auto_fix set and after a run that recorded an error; once it has
\* failed, nothing runs any more but the final report.
C26_QualityChecksBounded ==
    /\ [](AtMost(suiteRuns, max_attempts) /\ AtMost(fixCalls, max_attempts))
    /\ [][fixCalls' # fixCalls => (auto_fix /\ errors > 0)]_vars
    /\ [](lastFix = "failed" => qpc \in {"final", "returned"})
    /\ [][lastFix = "failed" => suiteRuns' = suiteRuns]_vars
    /\ <>(qpc = "returned")

\* An auto-fix failed and the call returned with attempts to spare.
C26_Witness ==
    /\ qpc = "returned"
    /\ lastFix = "failed"
    /\ fixCalls >= 2
    /\ suiteRuns < max_attempts

\* C27: when the loop ends with ProcessExited, both streams have been
\* unregistered at EOF, no process holds a write end, nothing is left unread
\* in either pipe, and the bytes read from neither stream contain the
\* sentinel.
C27_ProcessExitedAfterAllOutput ==
    reason = "ProcessExited" =>
        \A s \in Streams :
            /\ s \notin sel
            /\ writers[s] = {}
            /\ pc = "finally" => pipe[s] = <<>>
            /\ ~SentinelIn(seen[s])

\* The child wrote on both streams, all of it was read, and it exited.
C27_Witness ==
    /\ reason = "ProcessExited"
    /\ pc = "finally"
    /\ \A s \in Streams : seen[s] # <<>>

\* C28: the step taken at the top of an iteration at which the child has
\* exited and both streams are at EOF ends the loop with ProcessExited and
\* the child's exit code, whatever the clock says about the hard deadline.
C28_ExitCheckBeforeHardCheck ==
    [][(pc = "loop" /\ proc["child"] = "exited" /\ sel = {} /\ pc' # "loop")
          => /\ reason' = "ProcessExited"
             /\ exit_code' = childCode[1]
             /\ pc' = "finally"]_vars

\* ProcessExited with the child's code 1 at a time past the hard deadline.
C28_Witness ==
    /\ pc = "finally"
    /\ reason = "ProcessExited"
    /\ exit_code = 1
    /\ PastHard(clock)

\* C29: no byte is read in or after the step that ends the loop with
\* HardTimeout, whose exit code is 124, and the sentinel ends the loop only
\* in an iteration whose sample was not past the hard deadline.
C29_NoReadPastHardDeadline ==
    /\ [][reason' = "HardTimeout" => UNCHANGED <<seen, buf, echoed>>]_vars
    /\ [](reason = "HardTimeout" =>
              (exit_code = TIMEOUT_CODE /\ pc \notin LoopPcs))
    /\ [](reason = "SentinelFound" => ~PastHard(now))

\* HardTimeout with the sentinel lying unread in a pipe.
C29_Witness ==
    /\ pc = "finally"
    /\ reason = "HardTimeout"
    /\ \E s \in Streams : SentinelIn(pipe[s])

\* C30: run_quality_checks returns True only after at least one run of the
\* check suite, the last of which recorded no error.
C30_SuccessOnlyAfterChecks ==
    (qpc = "returned" /\ result = "True") => (suiteRuns >= 1 /\ errors = 0)

====
